---- MODULE Spec2Model ----
(***************************************************************************)
(* A model of projet_ws.py: the numeric normaliser (clean_to_float), the   *)
(* field and area extractors (get_text_or_default, extract_area_details,   *)
(* extract_detail), the link extractor (extract_listing_links) and the     *)
(* orchestrating loop (main, fetch_page).                                  *)
(*                                                                         *)
(* Text.  A Python str is a sequence of characters; a character is a       *)
(* one-character TLA+ string, except four that are written by name:        *)
(*   "nbsp" = U+00A0, "sup2" = U+00B2 (superscript two), "euro" = U+20AC,  *)
(*   "egrave" = U+00E8.                                                    *)
(* Numbers.  A Python number is [ty, num, exp]: the value num * 10^-exp,   *)
(* normalised (exp = 0 or num not divisible by 10), of Python type ty.     *)
(* URLs.  A URL or href is a sequence of segments (BASE_URL is one         *)
(* segment); startswith is the prefix relation, + is concatenation.        *)
(***************************************************************************)
EXTENDS Integers, Sequences, FiniteSets, TLC

VARIABLES
    n_pc, n_text, n_result,
    d_parsed, d_soup, d_results,
    l_soup, l_result,
    pc, page_index, response, listing_links, link, all_data, slept,
    attempts, origins, exports, report

vars == <<n_pc, n_text, n_result, d_parsed, d_soup, d_results, l_soup, l_result,
          pc, page_index, response, listing_links, link, all_data, slept,
          attempts, origins, exports, report>>

n_vars == <<n_pc, n_text, n_result>>

d_vars == <<d_parsed, d_soup, d_results>>

l_vars == <<l_soup, l_result>>

m_vars == <<pc, page_index, response, listing_links, link, all_data, slept,
            attempts, origins, exports, report>>

\* The variables of the pure functions' own specifications.
pure_vars == <<n_vars, d_vars, l_vars>>

\* An optional value (Python's None, or a value) is a sequence of length 0 or 1.
None == <<>>

Some(x) == <<x>>

\* An argument that is not a str; no string of the model holds this character.
NonStr == <<"<object>">>

(***************************************************************************)
(* Bounds of the model.                                                    *)
(***************************************************************************)
\* Longest enumerated input text of clean_to_float.
MaxLen == 3

\* Longest enumerated text of the room marker.
MaxRoomLen == 2

\* Most child nodes of the area container.
MaxChildren == 2

\* Most anchors inside the results container.
MaxAnchors == 3

\* Number of result pages the loop visits: MAX_PAGES (30 in the source).
MAX_PAGES == 2

\* Most calls of extract_detail on one document object.
MaxCalls == 2

(***************************************************************************)
(* Characters and strings.                                                 *)
(***************************************************************************)
DecimalDigits == {"0", "1", "2", "3", "4", "5", "6", "7", "8", "9"}

\* The characters str.isdigit accepts: the decimal digits and digit-like
\* characters such as U+00B2, which int() rejects.
DigitChars == DecimalDigits \cup {"sup2"}

\* str.isspace, as used by str.strip().
Whitespace == {" ", "nbsp"}

DigitVal(c) ==
    CASE c = "0" -> 0 [] c = "1" -> 1 [] c = "2" -> 2 [] c = "3" -> 3
      [] c = "4" -> 4 [] c = "5" -> 5 [] c = "6" -> 6 [] c = "7" -> 7
      [] c = "8" -> 8 [] c = "9" -> 9

BoundedSeq(S, n) == UNION {[1..k -> S] : k \in 0..n}

RECURSIVE Filter(_, _)
\* The characters of s that lie in keep, in order.
Filter(s, keep) ==
    IF s = <<>> THEN <<>>
    ELSE IF Head(s) \in keep THEN <<Head(s)>> \o Filter(Tail(s), keep)
    ELSE Filter(Tail(s), keep)

RECURSIVE Remove(_, _)
\* str.replace(c, '') for a single character c.
Remove(s, c) ==
    IF s = <<>> THEN <<>>
    ELSE IF Head(s) = c THEN Remove(Tail(s), c)
    ELSE <<Head(s)>> \o Remove(Tail(s), c)

RECURSIVE RemovePair(_, _, _)
\* str.replace(ab, '') for a two-character substring: left to right, no overlap.
RemovePair(s, a, b) ==
    IF Len(s) < 2 THEN s
    ELSE IF s[1] = a /\ s[2] = b THEN RemovePair(SubSeq(s, 3, Len(s)), a, b)
    ELSE <<Head(s)>> \o RemovePair(Tail(s), a, b)

RECURSIVE Replace(_, _, _)
\* str.replace(a, b) for single characters.
Replace(s, a, b) ==
    IF s = <<>> THEN <<>>
    ELSE <<(IF Head(s) = a THEN b ELSE Head(s))>> \o Replace(Tail(s), a, b)

RECURSIVE LStrip(_)
LStrip(s) ==
    IF s # <<>> /\ Head(s) \in Whitespace THEN LStrip(Tail(s)) ELSE s

RECURSIVE RStrip(_)
RStrip(s) ==
    IF s # <<>> /\ s[Len(s)] \in Whitespace THEN RStrip(SubSeq(s, 1, Len(s) - 1))
    ELSE s

\* str.strip()
Strip(s) == RStrip(LStrip(s))

RECURSIVE Count(_, _)
Count(s, c) ==
    IF s = <<>> THEN 0
    ELSE (IF Head(s) = c THEN 1 ELSE 0) + Count(Tail(s), c)

RECURSIVE DigitsToInt(_)
\* The integer a sequence of decimal digits denotes (0 for the empty one).
DigitsToInt(s) ==
    IF s = <<>> THEN 0
    ELSE 10 * DigitsToInt(SubSeq(s, 1, Len(s) - 1)) + DigitVal(s[Len(s)])

RECURSIVE IndexOf(_, _, _)
\* The first position >= i of c in s, 0 when there is none.
IndexOf(s, c, i) ==
    IF i > Len(s) THEN 0 ELSE IF s[i] = c THEN i ELSE IndexOf(s, c, i + 1)

(***************************************************************************)
(* Python numbers.                                                         *)
(***************************************************************************)
RECURSIVE Normal(_, _)
\* num * 10^-exp with the trailing zeros of the fraction dropped.
Normal(num, exp) ==
    IF exp > 0 /\ num % 10 = 0 THEN Normal(num \div 10, exp - 1)
    ELSE <<num, exp>>

PyFloat(num, exp) ==
    [ty |-> "float", num |-> Normal(num, exp)[1], exp |-> Normal(num, exp)[2]]

PyInt(n) == [ty |-> "int", num |-> n, exp |-> 0]

\* Python's == on numbers compares values, not types: 0 == 0.0.
PyEq(a, b) == a.num = b.num /\ a.exp = b.exp

PyStr(s) == [ty |-> "str", val |-> s]

\* None as a value of a record field.
PyNone == [ty |-> "NoneType", num |-> 0, exp |-> 0]

\* bool(v) of a number or a str.
Truthy(v) == IF v.ty = "str" THEN v.val # <<>> ELSE v.num # 0

\* t without its sign, when it starts with one.
Unsigned(t) == IF t # <<>> /\ Head(t) \in {"-", "+"} THEN Tail(t) ELSE t

\* float(t) accepts t, a text of decimal digits, periods and signs: an optional
\* sign, then digits with at most one period among them.
FloatParses(t) ==
    LET u == Unsigned(t)
    IN  /\ \A i \in 1..Len(u) : u[i] \in DecimalDigits \cup {"."}
        /\ Count(u, ".") <= 1
        /\ Filter(u, DecimalDigits) # <<>>

\* float(t) for such a t.
FloatOf(t) ==
    LET u == Unsigned(t)
        dot == IndexOf(u, ".", 1)
        frac == IF dot = 0 THEN 0 ELSE Len(u) - dot
        mag == DigitsToInt(Filter(u, DecimalDigits))
    IN  PyFloat(IF Head(t) = "-" THEN 0 - mag ELSE mag, frac)

\* int(t) accepts t, a text of str.isdigit characters: all must be decimal.
IntParses(t) == t # <<>> /\ \A i \in 1..Len(t) : t[i] \in DecimalDigits

(***************************************************************************)
(* clean_to_float                                                          *)
(***************************************************************************)
\* Step 1: the replace chain and strip().
clean_step1(text) ==
    Strip(Remove(RemovePair(Remove(Remove(text, "nbsp"), " "), "m", "sup2"), "euro"))

\* Step 2: re.sub(r'[^\d,.]', '', text), then ',' -> '.'.
clean_step2_keeps_sign(text) ==
    Replace(Filter(text, DecimalDigits \cup {",", ".", "-"}), ",", ".")

clean_step2(text) == Replace(Filter(text, DecimalDigits \cup {",", "."}), ",", ".")

clean_to_float(text) ==
    IF text = NonStr THEN PyFloat(0, 0)
    ELSE LET cleaned_text == clean_step2(clean_step1(text))
         IN  IF cleaned_text = <<>> THEN PyFloat(0, 0)
             ELSE IF FloatParses(cleaned_text) THEN FloatOf(cleaned_text)
             ELSE PyFloat(0, 0)

(***************************************************************************)
(* The normaliser on its own: a text is drawn, clean_to_float is applied.  *)
(***************************************************************************)
NormChars == {"0", "1", "7", ",", ".", " ", "nbsp", "m", "sup2", "euro", "a", "-"}

\* "1 234,56 €", "abc", "85 m²", "1,234,567".
NormExamples ==
    { <<"1", " ", "2", "3", "4", ",", "5", "6", " ", "euro">>,
      <<"a", "b", "c">>,
      <<"8", "5", " ", "m", "sup2">>,
      <<"1", ",", "2", "3", "4", ",", "5", "6", "7">> }

NormInputs == BoundedSeq(NormChars, MaxLen) \cup NormExamples \cup {NonStr}

NormIdle == n_pc = "idle" /\ n_text = <<>> /\ n_result = None

Normalize ==
    /\ n_pc = "call"
    /\ n_result' = Some(clean_to_float(n_text))
    /\ n_pc' = "returned"
    /\ UNCHANGED <<n_text, d_vars, l_vars, m_vars>>

(***************************************************************************)
(* The parsed advertisement document.  Each marker div is None or its      *)
(* text; the area container is None or its child nodes in document order,  *)
(* a child being a text node or a span.dtl-main-surface-terrain element.   *)
(***************************************************************************)
\* soup_obj.find("div", class_=class_name)
find_div(soup_obj, class_name) ==
    CASE class_name = "ep-price" -> soup_obj.price
      [] class_name = "ep-title" -> soup_obj.title
      [] class_name = "ep-room" -> soup_obj.room
      [] class_name = "ep-area" -> soup_obj.area

RECURSIVE node_text(_)
\* element.text: the texts of the element's descendants, concatenated.
node_text(children) ==
    IF children = <<>> THEN <<>>
    ELSE Head(children).text \o node_text(Tail(children))

RECURSIVE find_span(_, _)
\* area_div.find("span", class_='dtl-main-surface-terrain'): the position of
\* the first such child, 0 for None.
find_span(children, i) ==
    IF i > Len(children) THEN 0
    ELSE IF children[i].tag = "span" THEN i
    ELSE find_span(children, i + 1)

\* terrain_span.decompose(): the element leaves the tree.
decompose_keeps(children, i) == children

decompose(children, i) ==
    SubSeq(children, 1, i - 1) \o SubSeq(children, i + 1, Len(children))

(***************************************************************************)
(* extract_area_details: the area data, and the document as the call       *)
(* leaves it.                                                              *)
(***************************************************************************)
extract_area_details(soup_obj) ==
    LET area_div == find_div(soup_obj, "ep-area")
    IN  IF area_div = None
        THEN [area_data |-> [area_bati |-> PyFloat(0, 0), area_terrain |-> PyFloat(0, 0)],
              soup |-> soup_obj]
        ELSE
          LET children == area_div[1]
              terrain_span == find_span(children, 1)
              area_terrain == IF terrain_span # 0
                              THEN clean_to_float(children[terrain_span].text)
                              ELSE PyFloat(0, 0)
              remaining == IF terrain_span # 0
                           THEN decompose(children, terrain_span)
                           ELSE children
              bati_text == Strip(node_text(remaining))
          IN  [area_data |-> [area_bati |-> clean_to_float(bati_text),
                              area_terrain |-> area_terrain],
               soup |-> [soup_obj EXCEPT !.area = Some(remaining)]]

(***************************************************************************)
(* get_text_or_default                                                     *)
(***************************************************************************)
\* The function returning None, not default_value, for an absent marker.
get_text_or_default_returns_none(soup_obj, class_name, default_value) ==
    LET element == find_div(soup_obj, class_name)
    IN  IF element # None
        THEN LET text == Strip(element[1])
             IN  IF class_name = "ep-price" THEN clean_to_float(text)
                 ELSE IF class_name = "ep-room"
                 THEN LET cleaned_text == Strip(Filter(text, DigitChars))
                      IN  IF cleaned_text # <<>> THEN PyStr(cleaned_text)
                          ELSE default_value
                 ELSE PyStr(text)
        ELSE PyNone

get_text_or_default(soup_obj, class_name, default_value) ==
    LET element == find_div(soup_obj, class_name)
    IN  IF element # None
        THEN LET text == Strip(element[1])
             IN  IF class_name = "ep-price" THEN clean_to_float(text)
                 ELSE IF class_name = "ep-room"
                 THEN LET cleaned_text == Strip(Filter(text, DigitChars))
                      IN  IF cleaned_text # <<>> THEN PyStr(cleaned_text)
                          ELSE default_value
                 ELSE PyStr(text)
        ELSE default_value

(***************************************************************************)
(* extract_detail: the record, and the document as the call leaves it.     *)
(***************************************************************************)
\* int(v), None when it raises ValueError.
int_of(v) ==
    IF v.ty = "str"
    THEN (IF IntParses(v.val) THEN Some(PyInt(DigitsToInt(v.val))) ELSE None)
    ELSE Some(v)

\* The conversion with the ValueError left uncaught: the text stays.
room_uncaught(room) ==
    IF Truthy(room)
    THEN (IF int_of(room) # None THEN int_of(room)[1] ELSE room)
    ELSE PyInt(0)

\* data['room'] = int(data['room']) if data['room'] else 0, 0 on ValueError.
room_of(room) ==
    IF Truthy(room)
    THEN (IF int_of(room) # None THEN int_of(room)[1] ELSE PyInt(0))
    ELSE PyInt(0)

extract_detail(soup) ==
    LET area == extract_area_details(soup)
        area_results == area.area_data
        after == area.soup
    IN  [data |-> [price |-> get_text_or_default(after, "ep-price", PyInt(0)),
                   title |-> get_text_or_default(after, "ep-title", PyStr(<<>>)),
                   area_bati |-> area_results.area_bati,
                   area_terrain |-> area_results.area_terrain,
                   room |-> room_of(get_text_or_default(after, "ep-room", PyInt(0)))],
         soup |-> after]

(***************************************************************************)
(* The extractor on its own: a document is drawn and extract_detail is     *)
(* called on that same document object up to MaxCalls times.               *)
(***************************************************************************)
\* "250 000 €" (with U+00A0), "1.234.567 €", "abc"
PriceTexts ==
    { <<"2", "5", "0", "nbsp", "0", "0", "0", " ", "euro">>,
      <<"1", ".", "2", "3", "4", ".", "5", "6", "7", " ", "euro">>,
      <<"a", "b", "c">> }

\* "", " T3 "
TitleTexts == { <<>>, <<" ", "T", "3", " ">> }

RoomChars == {"3", "sup2", "p"}

\* "3 pièces"
RoomExample == <<"3", " ", "p", "i", "egrave", "c", "e", "s">>

RoomTexts == BoundedSeq(RoomChars, MaxRoomLen) \cup {RoomExample}

\* "85 m² ", "x"
AreaTextNodes ==
    { [tag |-> "text", text |-> <<"8", "5", " ", "m", "sup2", " ">>],
      [tag |-> "text", text |-> <<"x">>] }

\* <span class="dtl-main-surface-terrain">320 m²</span>, and one holding "x"
AreaSpans ==
    { [tag |-> "span", text |-> <<"3", "2", "0", " ", "m", "sup2">>],
      [tag |-> "span", text |-> <<"x">>] }

Option(S) == {None} \cup {Some(x) : x \in S}

DetailDocs ==
    [price : Option(PriceTexts),
     title : Option(TitleTexts),
     room  : Option(RoomTexts),
     area  : Option(BoundedSeq(AreaTextNodes \cup AreaSpans, MaxChildren))]

DetailIdle ==
    /\ d_parsed = [price |-> None, title |-> None, room |-> None, area |-> None]
    /\ d_soup = d_parsed
    /\ d_results = <<>>

\* announcement_data = extract_detail(detail_soup), on the object d_soup.
ExtractDetail ==
    /\ Len(d_results) < MaxCalls
    /\ d_results' = Append(d_results, extract_detail(d_soup).data)
    /\ d_soup' = extract_detail(d_soup).soup
    /\ UNCHANGED <<d_parsed, n_vars, l_vars, m_vars>>

(***************************************************************************)
(* extract_listing_links.  A results document: the anchors of the first    *)
(* div.ep-search-list-wrapper (None when there is no such div) and the     *)
(* anchors outside it; an anchor is its href, None when it has none.       *)
(***************************************************************************)
BASE_URL == <<"https://www.etreproprio.com">>

ListingPath == <<"/immobilier-">>

\* str.startswith
startswith(s, prefix) ==
    Len(s) >= Len(prefix) /\ SubSeq(s, 1, Len(prefix)) = prefix

RECURSIVE collect_links_relative_only(_)
\* The loop without its elif branch.
collect_links_relative_only(tags) ==
    IF tags = <<>> THEN <<>>
    ELSE LET tag == Head(tags)
             rest == collect_links_relative_only(Tail(tags))
         IN  IF tag.href = None THEN rest
             ELSE IF startswith(tag.href[1], ListingPath)
             THEN <<BASE_URL \o tag.href[1]>> \o rest
             ELSE rest

RECURSIVE collect_links(_)
\* The loop over wrapper.find_all("a", href=True): the list links.
collect_links(tags) ==
    IF tags = <<>> THEN <<>>
    ELSE LET tag == Head(tags)
             rest == collect_links(Tail(tags))
         IN  IF tag.href = None THEN rest
             ELSE IF startswith(tag.href[1], ListingPath)
             THEN <<BASE_URL \o tag.href[1]>> \o rest
             ELSE IF startswith(tag.href[1], BASE_URL \o ListingPath)
             THEN <<tag.href[1]>> \o rest
             ELSE rest

\* The list links as the function builds it, before list(set(links)).
links_of(soup) ==
    IF soup.wrapper = None THEN <<>> ELSE collect_links(soup.wrapper[1])

ToSet(s) == {s[i] : i \in 1..Len(s)}

\* list(set(links)): the distinct elements in an order Python chooses.
Orderings(S) ==
    {f \in [1..Cardinality(S) -> S] :
        \A i, j \in 1..Cardinality(S) : i # j => f[i] # f[j]}

\* The function returning links as built, without list(set(links)).
extract_listing_links_no_set(soup) == {links_of(soup)}

\* The lists extract_listing_links(soup) may return.
extract_listing_links(soup) == Orderings(ToSet(links_of(soup)))

(***************************************************************************)
(* The link extractor on its own.                                          *)
(***************************************************************************)
Rel123 == ListingPath \o <<"123">>

Rel456 == ListingPath \o <<"456">>

Hrefs ==
    { Rel123, BASE_URL \o Rel123, Rel456, BASE_URL \o Rel456,
      <<"/autre-page">>, BASE_URL \o <<"/autre-page">>,
      <<"http://autre.fr">> \o Rel123 }

Anchors == [href : Option(Hrefs)]

ResultDocs ==
    [wrapper : Option(BoundedSeq(Anchors, MaxAnchors)),
     outside : {<<>>, <<[href |-> Some(ListingPath \o <<"789">>)]>>}]

ExtractLinks ==
    /\ l_result = None
    /\ \E links \in extract_listing_links(l_soup) : l_result' = Some(links)
    /\ UNCHANGED <<l_soup, n_vars, d_vars, m_vars>>

(***************************************************************************)
(* Specifications of the pure functions.                                   *)
(***************************************************************************)
LinksIdle == l_soup = [wrapper |-> None, outside |-> <<>>] /\ l_result = None

MainIdle ==
    /\ pc = "idle" /\ page_index = 0 /\ response = None /\ listing_links = <<>>
    /\ link = None /\ all_data = <<>> /\ slept = TRUE /\ attempts = <<>>
    /\ origins = <<>> /\ exports = <<>> /\ report = "none"

NormInit ==
    /\ n_pc = "call" /\ n_text \in NormInputs /\ n_result = None
    /\ DetailIdle /\ LinksIdle /\ MainIdle

NormNext == Normalize

SpecNorm == NormInit /\ [][NormNext]_vars

DetailInit ==
    /\ d_parsed \in DetailDocs /\ d_soup = d_parsed /\ d_results = <<>>
    /\ NormIdle /\ LinksIdle /\ MainIdle

DetailNext == ExtractDetail

SpecDetail == DetailInit /\ [][DetailNext]_vars

LinksInit ==
    /\ l_soup \in ResultDocs /\ l_result = None
    /\ NormIdle /\ DetailIdle /\ MainIdle

LinksNext == ExtractLinks

SpecLinks == LinksInit /\ [][LinksNext]_vars

(***************************************************************************)
(* main.  The loop is cut at its suspension points: requests.get (which    *)
(* returns a response or raises) and time.sleep.  page_index = MAX_PAGES   *)
(* at "fetch_list" is the end of the for loop.                             *)
(*   attempts: every call of fetch_page made so far, in order              *)
(*   origins:  for each record of all_data, the page index and link it     *)
(*             was extracted for                                           *)
(*   slept:    time.sleep has run since the last requests.get              *)
(*   exports:  the collections handed to df.to_excel                       *)
(***************************************************************************)
\* SEARCH_URL.format(page_index=page_index)
SEARCH_URL(i) == BASE_URL \o <<"/annonces/thflcpo.odd.g", ToString(i), "#list">>

\* The results pages the site may serve.
PageWithDuplicates ==
    [wrapper |-> Some(<< [href |-> Some(Rel123)], [href |-> Some(BASE_URL \o Rel123)],
                         [href |-> Some(<<"/autre-page">>)], [href |-> Some(Rel456)] >>),
     outside |-> <<>>]

PageWithOne ==
    [wrapper |-> Some(<< [href |-> Some(BASE_URL \o Rel123)] >>), outside |-> <<>>]

PageWithoutWrapper ==
    [wrapper |-> None, outside |-> <<[href |-> Some(Rel456)]>>]

SitePages == {PageWithDuplicates, PageWithOne, PageWithoutWrapper}

\* The advertisement pages the site may serve.
FullAd ==
    [price |-> Some(<<"2", "5", "0", "nbsp", "0", "0", "0", " ", "euro">>),
     title |-> Some(<<" ", "T", "3", " ">>),
     room  |-> Some(RoomExample),
     area  |-> Some(<< [tag |-> "text", text |-> <<"8", "5", " ", "m", "sup2", " ">>],
                       [tag |-> "span", text |-> <<"3", "2", "0", " ", "m", "sup2">>] >>)]

EmptyAd == [price |-> None, title |-> None, room |-> None, area |-> None]

SiteAds == {FullAd, EmptyAd}

\* announcement_data = extract_detail(detail_soup), tabulated over the
\* advertisement pages the site may serve.
announcement_data_of == [ad \in SiteAds |-> extract_detail(ad).data]

\* fetch_page(list_url): requests.get and raise_for_status succeed.
GetListOk ==
    /\ pc = "fetch_list" /\ page_index < MAX_PAGES
    /\ \E page \in SitePages :
          /\ response' = Some(page)
          /\ attempts' = Append(attempts, [kind |-> "page", page |-> page_index,
                                           url |-> SEARCH_URL(page_index), ok |-> TRUE])
    /\ slept' = FALSE
    /\ pc' = "sleep_list"
    /\ UNCHANGED <<pure_vars, page_index, listing_links, link, all_data, origins,
                   exports, report>>

\* fetch_page(list_url): a RequestException; None is returned, main continues.
GetListFail ==
    /\ pc = "fetch_list" /\ page_index < MAX_PAGES
    /\ response' = None
    /\ attempts' = Append(attempts, [kind |-> "page", page |-> page_index,
                                     url |-> SEARCH_URL(page_index), ok |-> FALSE])
    /\ slept' = FALSE
    /\ page_index' = page_index + 1
    /\ UNCHANGED <<pure_vars, pc, listing_links, link, all_data, origins,
                   exports, report>>

\* time.sleep, return response; then main parses it and extracts the links.
SleepList ==
    /\ pc = "sleep_list"
    /\ slept' = TRUE
    /\ listing_links' \in extract_listing_links(response[1])
    /\ pc' = "fetch_detail"
    /\ UNCHANGED <<pure_vars, page_index, response, link, all_data, attempts, origins,
                   exports, report>>

\* fetch_page(link) for the next link of the page: success.
GetDetailOk ==
    /\ pc = "fetch_detail" /\ listing_links # <<>>
    /\ \E ad \in SiteAds :
          /\ response' = Some(ad)
          /\ attempts' = Append(attempts, [kind |-> "listing", page |-> page_index,
                                           url |-> Head(listing_links), ok |-> TRUE])
    /\ link' = Some(Head(listing_links))
    /\ listing_links' = Tail(listing_links)
    /\ slept' = FALSE
    /\ pc' = "sleep_detail"
    /\ UNCHANGED <<pure_vars, page_index, all_data, origins, exports, report>>

\* GetDetailFail appending a default record instead of skipping the link.
GetDetailFail_appends ==
    /\ pc = "fetch_detail" /\ listing_links # <<>>
    /\ response' = None
    /\ attempts' = Append(attempts, [kind |-> "listing", page |-> page_index,
                                     url |-> Head(listing_links), ok |-> FALSE])
    /\ link' = Some(Head(listing_links))
    /\ listing_links' = Tail(listing_links)
    /\ slept' = FALSE
    /\ all_data' = Append(all_data, announcement_data_of[EmptyAd])
    /\ origins' = Append(origins, [page |-> page_index, url |-> Head(listing_links)])
    /\ UNCHANGED <<pure_vars, pc, page_index, exports, report>>

\* fetch_page(link): a RequestException; None is returned, main continues.
GetDetailFail ==
    /\ pc = "fetch_detail" /\ listing_links # <<>>
    /\ response' = None
    /\ attempts' = Append(attempts, [kind |-> "listing", page |-> page_index,
                                     url |-> Head(listing_links), ok |-> FALSE])
    /\ link' = Some(Head(listing_links))
    /\ listing_links' = Tail(listing_links)
    /\ slept' = FALSE
    /\ UNCHANGED <<pure_vars, pc, page_index, all_data, origins, exports, report>>

\* time.sleep, return response; then main parses it, extracts and appends.
SleepDetail ==
    /\ pc = "sleep_detail"
    /\ slept' = TRUE
    /\ all_data' = Append(all_data, announcement_data_of[response[1]])
    /\ origins' = Append(origins, [page |-> page_index, url |-> link[1]])
    /\ pc' = "fetch_detail"
    /\ UNCHANGED <<pure_vars, page_index, response, listing_links, link, attempts,
                   exports, report>>

\* The inner for loop is exhausted: the next page index.
NextPage ==
    /\ pc = "fetch_detail" /\ listing_links = <<>>
    /\ page_index' = page_index + 1
    /\ pc' = "fetch_list"
    /\ UNCHANGED <<pure_vars, response, listing_links, link, all_data, slept, attempts, origins,
                   exports, report>>

\* Export without the `if all_data` test.
Export_unguarded ==
    /\ pc = "fetch_list" /\ page_index = MAX_PAGES
    /\ exports' = Append(exports, all_data)
    /\ report' = "exported"
    /\ pc' = "done"
    /\ UNCHANGED <<pure_vars, page_index, response, listing_links, link, all_data, slept,
                   attempts, origins>>

\* if all_data: df.to_excel(output_file, index=False)
Export ==
    /\ pc = "fetch_list" /\ page_index = MAX_PAGES
    /\ all_data # <<>>
    /\ exports' = Append(exports, all_data)
    /\ report' = "exported"
    /\ pc' = "done"
    /\ UNCHANGED <<pure_vars, page_index, response, listing_links, link, all_data, slept,
                   attempts, origins>>

\* else: the run reports that no data was extracted.
ReportEmpty ==
    /\ pc = "fetch_list" /\ page_index = MAX_PAGES
    /\ all_data = <<>>
    /\ report' = "no_data"
    /\ pc' = "done"
    /\ UNCHANGED <<pure_vars, page_index, response, listing_links, link, all_data, slept,
                   attempts, origins, exports>>

Init ==
    /\ pc = "fetch_list" /\ page_index = 0 /\ response = None /\ listing_links = <<>>
    /\ link = None /\ all_data = <<>> /\ slept = TRUE /\ attempts = <<>>
    /\ origins = <<>> /\ exports = <<>> /\ report = "none"
    /\ NormIdle /\ DetailIdle /\ LinksIdle

Next ==
    \/ GetListOk
    \/ GetListFail
    \/ SleepList
    \/ GetDetailOk
    \/ GetDetailFail
    \/ SleepDetail
    \/ NextPage
    \/ Export
    \/ ReportEmpty

Spec == Init /\ [][Next]_vars

\* The program is sequential and every step of it returns: requests.get has a
\* timeout, time.sleep is bounded.
FairSpec == Spec /\ WF_vars(Next)

(***************************************************************************)
(* Properties of clean_to_float (SpecNorm).                                *)
(***************************************************************************)
Zero == PyFloat(0, 0)

\* The characters of a text that are a digit, a period or a comma.
Kept(text) == Filter(text, DecimalDigits \cup {",", "."})

\* C9: clean_to_float is total and non-negative: for every text it returns a
\* float >= 0; the result is 0.0 when the digits, periods and commas of the text,
\* commas read as periods, are empty or no parseable number, and the parsed value
\* otherwise; "" and "abc" give 0.0, "1 234,56 €" gives 1234.56, a text with two
\* separators gives 0.0.
C9_NormalizeTotal ==
    n_pc = "returned" =>
        /\ n_result # None
        /\ n_result[1].ty = "float"
        /\ n_result[1].num >= 0
        /\ n_text # NonStr =>
              LET dotted == Replace(Kept(n_text), ",", ".")
              IN  IF dotted = <<>> \/ ~FloatParses(dotted)
                  THEN n_result[1] = Zero
                  ELSE n_result[1] = FloatOf(dotted)
        /\ n_text = <<>> => n_result[1] = Zero
        /\ n_text = <<"a", "b", "c">> => n_result[1] = Zero
        /\ n_text = <<"1", " ", "2", "3", "4", ",", "5", "6", " ", "euro">>
              => n_result[1] = [ty |-> "float", num |-> 123456, exp |-> 2]
        /\ n_text = <<"1", ",", "2", "3", "4", ",", "5", "6", "7">> => n_result[1] = Zero

\* "1 234,56 €" has been normalised to 1234.56.
C9_Witness ==
    /\ n_pc = "returned"
    /\ n_text = <<"1", " ", "2", "3", "4", ",", "5", "6", " ", "euro">>
    /\ n_result = Some([ty |-> "float", num |-> 123456, exp |-> 2])

(***************************************************************************)
(* Properties of the extractors (SpecDetail).  d_parsed is the document as *)
(* parsed, d_results[i] the record the i-th call returned.                 *)
(***************************************************************************)
Calls == 1..Len(d_results)

\* The digit characters of a room text, in order.
RoomDigits(text) == Filter(text, DigitChars)

\* C10: room is 0 when the room marker is absent; otherwise it is the integer
\* formed by the digit characters of the marker's text in their order, and 0
\* when no digit remains or the digits do not parse as an integer; "3 pièces"
\* gives 3; the call returns a record whatever the room text.
C10_RoomCount ==
    \A i \in Calls :
        LET room == d_results[i].room
        IN  /\ room.ty = "int"
            /\ d_parsed.room = None => room.num = 0
            /\ d_parsed.room # None =>
                  LET digits == RoomDigits(d_parsed.room[1])
                  IN  IF digits = <<>> \/ ~IntParses(digits)
                      THEN room.num = 0
                      ELSE room.num = DigitsToInt(digits)
            /\ d_parsed.room = Some(RoomExample) => room.num = 3

\* A room text holding a digit and U+00B2 has been extracted: int() rejected it.
C10_Witness ==
    /\ d_results # <<>>
    /\ d_parsed.room = Some(<<"3", "sup2">>)
    /\ d_results[1].room = PyInt(0)

IsNumber(v) == v.ty \in {"float", "int"} /\ v.num >= 0 /\ v.exp >= 0

WithoutChild(children, k) ==
    [i \in 1..(Len(children) - 1) |-> IF i < k THEN children[i] ELSE children[i + 1]]

RECURSIVE OwnText(_)
\* The text of a container's text nodes alone.
OwnText(children) ==
    IF children = <<>> THEN <<>>
    ELSE (IF Head(children).tag = "text" THEN Head(children).text ELSE <<>>)
         \o OwnText(Tail(children))

Spans(children) == {i \in 1..Len(children) : children[i].tag = "span"}

\* C7: extract-then-excise, on a freshly parsed document: no area container
\* gives (0.0, 0.0); a container without a land-area span gives area_terrain 0.0
\* and area_bati the normalised text of the container; with a span, area_terrain
\* is the normalised text of the (first) span and area_bati the normalised text
\* of the container without that span, so with one span the land area's digits
\* are not in area_bati; "85 m²" with nested "320 m²" gives (85.0, 320.0).
C7_ExtractThenExcise ==
    d_results # <<>> =>
        LET bati == d_results[1].area_bati
            terrain == d_results[1].area_terrain
        IN  IF d_parsed.area = None THEN bati = Zero /\ terrain = Zero
            ELSE LET children == d_parsed.area[1]
                 IN  /\ Spans(children) = {} =>
                           /\ terrain = Zero
                           /\ bati = clean_to_float(node_text(children))
                     /\ \A k \in Spans(children) :
                           (\A j \in Spans(children) : k <= j) =>
                               /\ terrain = clean_to_float(children[k].text)
                               /\ bati = clean_to_float(node_text(WithoutChild(children, k)))
                     /\ Cardinality(Spans(children)) = 1 =>
                           bati = clean_to_float(OwnText(children))
                     /\ children = << [tag |-> "text", text |-> <<"8", "5", " ", "m", "sup2", " ">>],
                                      [tag |-> "span", text |-> <<"3", "2", "0", " ", "m", "sup2">>] >>
                           => bati.num = 85 /\ bati.exp = 0 /\ terrain.num = 320 /\ terrain.exp = 0

\* The container "85 m²" with the nested "320 m²" has been extracted.
C7_Witness ==
    /\ d_results # <<>>
    /\ d_parsed.area = Some(<< [tag |-> "text", text |-> <<"8", "5", " ", "m", "sup2", " ">>],
                               [tag |-> "span", text |-> <<"3", "2", "0", " ", "m", "sup2">>] >>)
    /\ d_results[1].area_bati.num = 85 /\ d_results[1].area_terrain.num = 320

\* C1: idempotence of extraction: a second call of extract_detail on the same
\* document object returns the record the first call returned, in all five
\* fields.
C1_Idempotent ==
    Len(d_results) >= 2 => d_results[2] = d_results[1]

(***************************************************************************)
(* Properties of extract_listing_links (SpecLinks).                        *)
(***************************************************************************)
\* The absolute URL an href contributes, as a set: one URL or none.
Contribution(href) ==
    IF startswith(href, ListingPath) THEN {BASE_URL \o href}
    ELSE IF startswith(href, BASE_URL \o ListingPath) THEN {href}
    ELSE {}

\* The URLs the anchors inside the results container contribute.
ExpectedLinks(soup) ==
    IF soup.wrapper = None THEN {}
    ELSE UNION { Contribution(soup.wrapper[1][i].href[1]) :
                   i \in {j \in 1..Len(soup.wrapper[1]) : soup.wrapper[1][j].href # None} }

\* C8: extract_listing_links returns exactly the distinct absolute URLs the
\* anchors inside the results container contribute (a relative listing href
\* resolved against BASE_URL, an absolute listing href itself, any other href
\* nothing), each once, every one starting with BASE_URL + "/immobilier-"; no
\* container gives an empty result; the anchors "/immobilier-123",
\* "/autre-page", BASE_URL + "/immobilier-456" give the two listing URLs.
C8_ListingLinks ==
    l_result # None =>
        LET out == l_result[1]
        IN  /\ ToSet(out) = ExpectedLinks(l_soup)
            /\ \A i, j \in 1..Len(out) : i # j => out[i] # out[j]
            /\ \A i \in 1..Len(out) : startswith(out[i], BASE_URL \o ListingPath)
            /\ l_soup.wrapper = None => out = <<>>
            /\ l_soup.wrapper = Some(<< [href |-> Some(Rel123)],
                                        [href |-> Some(<<"/autre-page">>)],
                                        [href |-> Some(BASE_URL \o Rel456)] >>)
                  => ToSet(out) = {BASE_URL \o Rel123, BASE_URL \o Rel456}

\* A relative and an absolute anchor of one advertisement, and a second
\* advertisement, have been collapsed to two URLs.
C8_Witness ==
    /\ l_result # None
    /\ l_soup.wrapper = Some(<< [href |-> Some(Rel123)],
                                [href |-> Some(BASE_URL \o Rel123)],
                                [href |-> Some(BASE_URL \o Rel456)] >>)
    /\ Len(l_result[1]) = 2

(***************************************************************************)
(* Properties of main (Spec, FairSpec).                                    *)
(***************************************************************************)
\* The step is a call of fetch_page.
Retrieval == Len(attempts') = Len(attempts) + 1

\* The call of fetch_page the step makes.
Made == attempts'[Len(attempts')]

IsPrefix(s, t) == Len(s) <= Len(t) /\ SubSeq(t, 1, Len(s)) = s

RECURSIVE Succeeded(_)
\* The page and link of the listing retrievals that succeeded, in order.
Succeeded(log) ==
    IF log = <<>> THEN <<>>
    ELSE LET a == log[Len(log)]
             before == Succeeded(SubSeq(log, 1, Len(log) - 1))
         IN  IF a.kind = "listing" /\ a.ok
             THEN Append(before, [page |-> a.page, url |-> a.url])
             ELSE before

\* The succeeded listing retrievals whose record has been appended: all, but
\* the one whose response is being processed.
Completed ==
    IF pc = "sleep_detail"
    THEN SubSeq(Succeeded(attempts), 1, Len(Succeeded(attempts)) - 1)
    ELSE Succeeded(attempts)

\* C3: a failed retrieval never stops the run.  A failed results page: the loop
\* is at the next page index and no listing of that page is ever fetched.  A
\* failed listing: no record is appended and the loop is at the next listing.
\* The collection holds one record per listing retrieval that succeeded so far,
\* in the order of the retrievals, and only ever grows at its end.
C3_FailuresSkipped ==
    /\ [][Retrieval /\ Made.kind = "page" /\ ~Made.ok =>
            /\ page_index' = page_index + 1
            /\ pc' = "fetch_list"
            /\ all_data' = all_data]_vars
    /\ [](\A i \in 1..Len(attempts) :
            attempts[i].kind = "listing" =>
                \E j \in 1..(i - 1) :
                    /\ attempts[j].kind = "page" /\ attempts[j].ok
                    /\ attempts[j].page = attempts[i].page)
    /\ [][Retrieval /\ Made.kind = "listing" /\ ~Made.ok =>
            /\ all_data' = all_data
            /\ pc' = "fetch_detail"
            /\ page_index' = page_index
            /\ listing_links' = Tail(listing_links)]_vars
    /\ [](origins = Completed /\ Len(all_data) = Len(origins))
    /\ [][IsPrefix(all_data, all_data')]_vars
    /\ [][all_data' # all_data =>
            pc = "sleep_detail" /\ all_data' = Append(all_data, extract_detail(response[1]).data)]_vars

\* A results page and a listing have failed, and a later listing has been
\* retrieved and its record appended.
C3_Witness ==
    /\ \E i \in 1..Len(attempts) : attempts[i].kind = "page" /\ ~attempts[i].ok
    /\ \E i \in 1..Len(attempts) :
          /\ attempts[i].kind = "listing" /\ ~attempts[i].ok
          /\ \E j \in (i + 1)..Len(attempts) : attempts[j].kind = "listing" /\ attempts[j].ok
    /\ Len(all_data) = 1
    /\ pc = "done"

\* C4: every retrieval, failed or not, is followed by the delay before the next
\* retrieval begins: a call of fetch_page starts only when time.sleep has run
\* since the call before it.
C4_DelayAfterEveryRetrieval == [][Retrieval => slept]_vars

\* C5: every run ends, in one of two end states: the collection is not empty
\* and was handed to the export exactly once, after the last page index; or it
\* is empty, nothing was exported and the run reported that no data was
\* extracted.  No empty collection is exported, and none changes after export.
C5_RunEnds ==
    /\ <>(pc = "done")
    /\ [](pc = "done" =>
            /\ page_index = MAX_PAGES
            /\ \/ all_data # <<>> /\ exports = <<all_data>> /\ report = "exported"
               \/ all_data = <<>> /\ exports = <<>> /\ report = "no_data")
    /\ [](pc # "done" => exports = <<>> /\ report = "none")
    /\ [](\A i \in 1..Len(exports) : exports[i] # <<>>)
    /\ [][exports # <<>> => all_data' = all_data /\ exports' = exports]_vars

\* A run has ended with a collection of two records exported.
C5_Witness ==
    pc = "done" /\ Len(all_data) = 2 /\ exports = <<all_data>> /\ report = "exported"

\* The records the retrievals of link u have contributed.
RecordsOf(u) == {i \in 1..Len(origins) : origins[i].url = u}

\* C6: uniqueness is per results page only.  Within one page a URL is retrieved
\* at most once and contributes at most one record; across pages nothing is
\* deduplicated: every retrieval of a URL that succeeded has contributed its own
\* record, so a URL retrieved on two pages has two.
C6_PerPageUniqueness ==
    /\ \A i, j \in 1..Len(attempts) :
          (i # j /\ attempts[i].kind = "listing" /\ attempts[j].kind = "listing"
                 /\ attempts[i].page = attempts[j].page)
              => attempts[i].url # attempts[j].url
    /\ \A i, j \in 1..Len(origins) : i # j => origins[i] # origins[j]
    /\ Len(all_data) = Len(origins)
    /\ pc = "done" =>
          \A u \in {origins[i].url : i \in 1..Len(origins)} :
              Cardinality(RecordsOf(u)) =
                  Cardinality({i \in 1..Len(attempts) :
                                 attempts[i].kind = "listing" /\ attempts[i].ok
                                 /\ attempts[i].url = u})

\* A run has ended with two records of one URL, from two result pages.
C6_Witness ==
    /\ pc = "done"
    /\ \E i, j \in 1..Len(origins) :
          origins[i].url = origins[j].url /\ origins[i].page # origins[j].page
    /\ Len(all_data) >= 2

====
